---- MODULE Spec2Model ----
(***************************************************************************)
(* Model of the DB25 SQL tokenizer (SimdTokenizer): the byte               *)
(* classification table, the scalar lexer core and the tokenize() loop.    *)
(* Bytes are integers 0..255; a token value is a borrowed slice of the     *)
(* input, recorded as [start, len] (0-based start).                        *)
(***************************************************************************)
EXTENDS Integers, Sequences, FiniteSets, TLC

VARIABLES input, position, line, column, tokens, pc, calls, simd_kw

vars == <<input, position, line, column, tokens, pc, calls, simd_kw>>

(***************************************************************************)
(* Byte values used by the code as character literals.                     *)
(***************************************************************************)
B == [TAB |-> 9, LF |-> 10, VT |-> 11, CR |-> 13, SP |-> 32, BANG |-> 33,
      DQ |-> 34, HASH |-> 35, PCT |-> 37, AMP |-> 38, SQ |-> 39,
      LPAR |-> 40, RPAR |-> 41, STAR |-> 42, PLUS |-> 43, COMMA |-> 44,
      MINUS |-> 45, DOT |-> 46, SLASH |-> 47, D0 |-> 48, D1 |-> 49,
      D9 |-> 57, COLON |-> 58, SEMI |-> 59, LT |-> 60, EQ |-> 61,
      GT |-> 62, QMARK |-> 63, AT |-> 64, UA |-> 65, UE |-> 69, UO |-> 79,
      UR |-> 82, US |-> 83, UZ |-> 90, LBRK |-> 91, RBRK |-> 93,
      CARET |-> 94, USCORE |-> 95, LA |-> 97, LE |-> 101, LO |-> 111,
      LR |-> 114, LS |-> 115, LZ |-> 122, LBRC |-> 123, PIPE |-> 124,
      RBRC |-> 125, TILDE |-> 126, DEL |-> 127, HI |-> 128, NUL |-> 0]

(***************************************************************************)
(* Character class flags (enum CharClass).                                 *)
(***************************************************************************)
CHAR_NONE == 0
CHAR_WHITESPACE == 1
CHAR_ALPHA_UPPER == 2
CHAR_ALPHA_LOWER == 4
CHAR_DIGIT == 8
CHAR_UNDERSCORE == 16
CHAR_QUOTE == 32
CHAR_OPERATOR == 64
CHAR_DELIMITER == 128

RECURSIVE BitAnd(_, _)
BitAnd(x, y) ==
    IF x = 0 \/ y = 0 THEN 0
    ELSE (x % 2) * (y % 2) + 2 * BitAnd(x \div 2, y \div 2)

RECURSIVE BitOr(_, _)
BitOr(x, y) ==
    IF x = 0 THEN y
    ELSE IF y = 0 THEN x
    ELSE (IF (x % 2) + (y % 2) > 0 THEN 1 ELSE 0)
         + 2 * BitOr(x \div 2, y \div 2)

CHAR_ALPHA == BitOr(CHAR_ALPHA_UPPER, CHAR_ALPHA_LOWER)
CHAR_IDENT_START == BitOr(CHAR_ALPHA, CHAR_UNDERSCORE)
CHAR_IDENT_CONT == BitOr(CHAR_IDENT_START, CHAR_DIGIT)

(***************************************************************************)
(* char_lookup_table[256], one row of 16 entries per line; entry for byte  *)
(* b is at index b + 1.                                                    *)
(***************************************************************************)
TableEntries == <<
    0, 0, 0, 0, 0, 0, 0, 0, 0, CHAR_WHITESPACE, CHAR_WHITESPACE, 0, 0, CHAR_WHITESPACE, 0, 0,
    0, 0, 0, 0, 0, 0, 0, 0, 0, 0, 0, 0, 0, 0, 0, 0,
    CHAR_WHITESPACE, CHAR_OPERATOR, CHAR_QUOTE, 0, 0, CHAR_OPERATOR, CHAR_OPERATOR, CHAR_QUOTE, CHAR_DELIMITER, CHAR_DELIMITER, CHAR_OPERATOR, CHAR_OPERATOR, CHAR_DELIMITER, CHAR_OPERATOR, CHAR_OPERATOR, CHAR_OPERATOR,
    CHAR_DIGIT, CHAR_DIGIT, CHAR_DIGIT, CHAR_DIGIT, CHAR_DIGIT, CHAR_DIGIT, CHAR_DIGIT, CHAR_DIGIT, CHAR_DIGIT, CHAR_DIGIT, CHAR_DELIMITER, CHAR_DELIMITER, CHAR_OPERATOR, CHAR_OPERATOR, CHAR_OPERATOR, 0,
    0, CHAR_ALPHA_UPPER, CHAR_ALPHA_UPPER, CHAR_ALPHA_UPPER, CHAR_ALPHA_UPPER, CHAR_ALPHA_UPPER, CHAR_ALPHA_UPPER, CHAR_ALPHA_UPPER, CHAR_ALPHA_UPPER, CHAR_ALPHA_UPPER, CHAR_ALPHA_UPPER, CHAR_ALPHA_UPPER, CHAR_ALPHA_UPPER, CHAR_ALPHA_UPPER, CHAR_ALPHA_UPPER, CHAR_ALPHA_UPPER,
    CHAR_ALPHA_UPPER, CHAR_ALPHA_UPPER, CHAR_ALPHA_UPPER, CHAR_ALPHA_UPPER, CHAR_ALPHA_UPPER, CHAR_ALPHA_UPPER, CHAR_ALPHA_UPPER, CHAR_ALPHA_UPPER, CHAR_ALPHA_UPPER, CHAR_ALPHA_UPPER, CHAR_ALPHA_UPPER, CHAR_DELIMITER, 0, CHAR_DELIMITER, CHAR_OPERATOR, CHAR_UNDERSCORE,
    0, CHAR_ALPHA_LOWER, CHAR_ALPHA_LOWER, CHAR_ALPHA_LOWER, CHAR_ALPHA_LOWER, CHAR_ALPHA_LOWER, CHAR_ALPHA_LOWER, CHAR_ALPHA_LOWER, CHAR_ALPHA_LOWER, CHAR_ALPHA_LOWER, CHAR_ALPHA_LOWER, CHAR_ALPHA_LOWER, CHAR_ALPHA_LOWER, CHAR_ALPHA_LOWER, CHAR_ALPHA_LOWER, CHAR_ALPHA_LOWER,
    CHAR_ALPHA_LOWER, CHAR_ALPHA_LOWER, CHAR_ALPHA_LOWER, CHAR_ALPHA_LOWER, CHAR_ALPHA_LOWER, CHAR_ALPHA_LOWER, CHAR_ALPHA_LOWER, CHAR_ALPHA_LOWER, CHAR_ALPHA_LOWER, CHAR_ALPHA_LOWER, CHAR_ALPHA_LOWER, CHAR_DELIMITER, CHAR_OPERATOR, CHAR_DELIMITER, CHAR_OPERATOR, 0,
    0, 0, 0, 0, 0, 0, 0, 0, 0, 0, 0, 0, 0, 0, 0, 0,
    0, 0, 0, 0, 0, 0, 0, 0, 0, 0, 0, 0, 0, 0, 0, 0,
    0, 0, 0, 0, 0, 0, 0, 0, 0, 0, 0, 0, 0, 0, 0, 0,
    0, 0, 0, 0, 0, 0, 0, 0, 0, 0, 0, 0, 0, 0, 0, 0,
    0, 0, 0, 0, 0, 0, 0, 0, 0, 0, 0, 0, 0, 0, 0, 0,
    0, 0, 0, 0, 0, 0, 0, 0, 0, 0, 0, 0, 0, 0, 0, 0,
    0, 0, 0, 0, 0, 0, 0, 0, 0, 0, 0, 0, 0, 0, 0, 0,
    0, 0, 0, 0, 0, 0, 0, 0, 0, 0, 0, 0, 0, 0, 0, 0
>>

\* Variant: vertical tab (0x0B) also classified as whitespace.
char_lookup_table_vt ==
    [b \in 0..255 |-> IF b = 11 THEN CHAR_WHITESPACE ELSE TableEntries[b + 1]]

\* Variant: the dollar sign (0x24) classified as a lowercase letter.
char_lookup_table_dollar ==
    [b \in 0..255 |-> IF b = 36 THEN CHAR_ALPHA_LOWER ELSE TableEntries[b + 1]]

\* Variant: the dot (0x2E) classified as a delimiter.
char_lookup_table_dot ==
    [b \in 0..255 |-> IF b = 46 THEN CHAR_DELIMITER ELSE TableEntries[b + 1]]

char_lookup_table == [b \in 0..255 |-> TableEntries[b + 1]]

\* Variant: tested against the IDENT_CONT mask.
is_identifier_start_cont(ch) ==
    BitAnd(char_lookup_table[ch], CHAR_IDENT_CONT) /= 0

is_identifier_start(ch) == BitAnd(char_lookup_table[ch], CHAR_IDENT_START) /= 0

is_identifier_cont(ch) == BitAnd(char_lookup_table[ch], CHAR_IDENT_CONT) /= 0

is_digit(ch) == BitAnd(char_lookup_table[ch], CHAR_DIGIT) /= 0

is_whitespace(ch) == BitAnd(char_lookup_table[ch], CHAR_WHITESPACE) /= 0

is_operator(ch) == BitAnd(char_lookup_table[ch], CHAR_OPERATOR) /= 0

is_delimiter(ch) == BitAnd(char_lookup_table[ch], CHAR_DELIMITER) /= 0

is_quote(ch) == BitAnd(char_lookup_table[ch], CHAR_QUOTE) /= 0

(***************************************************************************)
(* The range-comparison predicates and the table predicates compared by    *)
(* analysis/lookup_table_analysis.cpp; its table is the one above.         *)
(***************************************************************************)
is_identifier_start_range(ch) ==
    \/ (ch >= B.UA /\ ch <= B.UZ)
    \/ (ch >= B.LA /\ ch <= B.LZ)
    \/ ch = B.USCORE

is_identifier_cont_range(ch) ==
    \/ (ch >= B.UA /\ ch <= B.UZ)
    \/ (ch >= B.LA /\ ch <= B.LZ)
    \/ (ch >= B.D0 /\ ch <= B.D9)
    \/ ch = B.USCORE

is_digit_range(ch) == ch >= B.D0 /\ ch <= B.D9

is_whitespace_range(ch) ==
    ch = B.SP \/ ch = B.TAB \/ ch = B.LF \/ ch = B.CR

\* Variant: the mask of the continuation class is used.
is_identifier_start_lookup_cont(ch) ==
    BitAnd(char_lookup_table[ch], CHAR_IDENT_CONT) /= 0

is_identifier_start_lookup(ch) ==
    BitAnd(char_lookup_table[ch], CHAR_IDENT_START) /= 0

is_identifier_cont_lookup(ch) ==
    BitAnd(char_lookup_table[ch], CHAR_IDENT_CONT) /= 0

is_digit_lookup(ch) == BitAnd(char_lookup_table[ch], CHAR_DIGIT) /= 0

is_whitespace_lookup(ch) == BitAnd(char_lookup_table[ch], CHAR_WHITESPACE) /= 0

(***************************************************************************)
(* Token record and the borrowed slice std::string_view(input_ + start,    *)
(* position_ - start).  At(inp, p) is input_[p] for a 0-based offset p.    *)
(***************************************************************************)
At(inp, p) == inp[p + 1]

\* Variant: the slice is one byte short.
StringView_short(start, pos) == [start |-> start, len |-> pos - start - 1]

StringView(start, pos) == [start |-> start, len |-> pos - start]

Token(type, value, keyword_id, l, c) ==
    [type |-> type, value |-> value, keyword_id |-> keyword_id,
     line |-> l, column |-> c]

Bytes(inp, value) == SubSeq(inp, value.start + 1, value.start + value.len)

(***************************************************************************)
(* Position state (position_, line_, column_) as a record.                 *)
(***************************************************************************)
Pos(p, l, c) == [position |-> p, line |-> l, column |-> c]

Advance(st, n) == Pos(st.position + n, st.line, st.column + n)

\* Variant: the column restarts at 0 after a newline.
NewLine_col0(st) == Pos(st.position + 1, st.line + 1, 0)

NewLine(st) == Pos(st.position + 1, st.line + 1, 1)

(***************************************************************************)
(* Keyword dictionary (keywords.hpp, external): case-insensitive lookup    *)
(* of a lexeme, here over the keywords that occur in the test inputs.      *)
(***************************************************************************)
Keyword_UNKNOWN == "UNKNOWN"

KeywordTable == {
    [lexeme |-> <<83, 69, 76, 69, 67, 84>>, id |-> "SELECT"],
    [lexeme |-> <<70, 82, 79, 77>>, id |-> "FROM"],
    [lexeme |-> <<87, 72, 69, 82, 69>>, id |-> "WHERE"],
    [lexeme |-> <<65, 78, 68>>, id |-> "AND"],
    [lexeme |-> <<79, 82>>, id |-> "OR"],
    [lexeme |-> <<78, 79, 84>>, id |-> "NOT"],
    [lexeme |-> <<67, 65, 83, 69>>, id |-> "CASE"],
    [lexeme |-> <<87, 72, 69, 78>>, id |-> "WHEN"],
    [lexeme |-> <<84, 72, 69, 78>>, id |-> "THEN"],
    [lexeme |-> <<69, 76, 83, 69>>, id |-> "ELSE"],
    [lexeme |-> <<69, 78, 68>>, id |-> "END"],
    [lexeme |-> <<65, 83>>, id |-> "AS"] }

ToUpper(b) == IF b >= B.LA /\ b <= B.LZ THEN b - 32 ELSE b

find_keyword(lexeme) ==
    LET up == [i \in 1..Len(lexeme) |-> ToUpper(lexeme[i])]
        hits == {k \in KeywordTable : k.lexeme = up}
    IN  IF hits = {} THEN Keyword_UNKNOWN ELSE (CHOOSE k \in hits : TRUE).id

\* The second lookup (simd_tokenizer.cpp:117-128) receives kw by reference.
\* Its body is external and not described: simd_kw is the id it writes, the
\* unknown id standing for a lookup that reports nothing and leaves kw.
is_keyword_simd(lexeme, kw) ==
    IF simd_kw /= Keyword_UNKNOWN THEN simd_kw ELSE kw

(***************************************************************************)
(* skip_whitespace(ptr, len): number of leading WHITESPACE-class bytes of  *)
(* inp[p .. p + n).                                                        *)
(***************************************************************************)
RECURSIVE skip_whitespace(_, _, _)
skip_whitespace(inp, p, n) ==
    IF n > 0 /\ is_whitespace(At(inp, p))
    THEN 1 + skip_whitespace(inp, p + 1, n - 1)
    ELSE 0

(***************************************************************************)
(* Vector tiers of skip_whitespace (simd_architecture.hpp, external): load *)
(* Width bytes while at least Width remain, compare each byte to the four  *)
(* whitespace literals, stop at the first non-whitespace lane (count of    *)
(* trailing zero bits of the mask) or advance by Width when the mask is    *)
(* zero; fewer than Width remaining bytes go to the scalar loop.  The      *)
(* result records the count n and the set of offsets that were read.       *)
(***************************************************************************)
Tiers == {"AVX512", "AVX2", "SSE4.2", "SSSE3", "SSE2", "NEON", "Scalar"}

LaneWidth == [tier \in Tiers |->
                 IF tier = "AVX512" THEN 64
                 ELSE IF tier = "AVX2" THEN 32
                 ELSE IF tier = "Scalar" THEN 1
                 ELSE 16]

IsWhitespaceLiteral(b) == b = B.SP \/ b = B.TAB \/ b = B.LF \/ b = B.CR

\* The scalar loop reads every byte it counts and the byte that stops it.
ScalarTier(inp, p, n) ==
    LET k == skip_whitespace(inp, p, n)
    IN  [n |-> k,
         reads |-> {r \in p..(p + k) : r < p + n}]

\* Variant: a full vector is loaded whenever any byte remains.
VectorLoadGuard_any(n, width) == n > 0

VectorLoadGuard(n, width) == n >= width

RECURSIVE VectorTier(_, _, _, _)
VectorTier(width, inp, p, n) ==
    IF VectorLoadGuard(n, width)
    THEN LET lanes == p..(p + width - 1)
             nonws == {r \in lanes :
                         r >= Len(inp) \/ ~IsWhitespaceLiteral(At(inp, r))}
         IN  IF nonws = {}
             THEN LET rest == VectorTier(width, inp, p + width, n - width)
                  IN  [n |-> width + rest.n, reads |-> lanes \cup rest.reads]
             ELSE [n |-> (CHOOSE r \in nonws : \A q \in nonws : r <= q) - p,
                   reads |-> lanes]
    ELSE ScalarTier(inp, p, n)

\* dispatcher_.dispatch: the tier selected for this tokenizer.
dispatch(tier, inp, p, n) ==
    IF tier = "Scalar" THEN ScalarTier(inp, p, n)
    ELSE VectorTier(LaneWidth[tier], inp, p, n)

(***************************************************************************)
(* update_position(count): byte walk over the skipped region.              *)
(***************************************************************************)
\* Variant: the column is not reset on a newline.
UpdateStep_nocolreset(st, ch) ==
    IF ch = B.LF THEN Pos(st.position + 1, st.line + 1, st.column)
    ELSE Advance(st, 1)

\* Variant: a newline resets the column but leaves the line unchanged.
UpdateStep_noline(st, ch) ==
    IF ch = B.LF THEN Pos(st.position + 1, st.line, 1) ELSE Advance(st, 1)

UpdateStep(st, ch) ==
    IF ch = B.LF THEN NewLine(st) ELSE Advance(st, 1)

RECURSIVE update_position(_, _, _)
update_position(inp, st, count) ==
    IF count = 0 THEN st
    ELSE LET st1 == UpdateStep(st, At(inp, st.position))
         IN  \* position_ is a size_t; the test also makes each step's
             \* state be computed before the next iteration.
             CASE st1.position \in Nat ->
                    update_position(inp, st1, count - 1)

(***************************************************************************)
(* scan_identifier_or_keyword                                              *)
(***************************************************************************)
\* Variant: the scan continues on letters and underscore only.
RECURSIVE IdentLoop_nodigit(_, _)
IdentLoop_nodigit(inp, st) ==
    IF st.position < Len(inp) /\ is_identifier_start(At(inp, st.position))
    THEN IdentLoop_nodigit(inp, Advance(st, 1))
    ELSE st

RECURSIVE IdentLoop(_, _)
IdentLoop(inp, st) ==
    IF st.position < Len(inp) /\ is_identifier_cont(At(inp, st.position))
    THEN IdentLoop(inp, Advance(st, 1))
    ELSE st

\* Variant: the kind is never raised to Keyword.
scan_identifier_or_keyword_notype(inp, st, start, start_line, start_column) ==
    LET st1 == IdentLoop(inp, st)
        value == StringView(start, st1.position)
        kw == find_keyword(Bytes(inp, value))
    IN  [tok |-> Token("Identifier", value, kw, start_line, start_column),
         st |-> st1]

\* Variant: the lexeme handed to the dictionary is one byte too long.
scan_identifier_or_keyword_overread(inp, st, start, start_line, start_column) ==
    LET st1 == IdentLoop(inp, st)
        value == StringView(start, st1.position)
        over == IF st1.position < Len(inp) THEN st1.position + 1
                ELSE st1.position
        kw == find_keyword(Bytes(inp, StringView(start, over)))
        type == IF kw /= Keyword_UNKNOWN THEN "Keyword" ELSE "Identifier"
    IN  [tok |-> Token(type, value, kw, start_line, start_column), st |-> st1]

scan_identifier_or_keyword(inp, st, start, start_line, start_column) ==
    LET st1 == IdentLoop(inp, st)
        value == StringView(start, st1.position)
        kw == find_keyword(Bytes(inp, value))
        type == IF kw /= Keyword_UNKNOWN THEN "Keyword" ELSE "Identifier"
        kw2 == IF kw = Keyword_UNKNOWN /\ value.len <= 32
               THEN is_keyword_simd(Bytes(inp, value), kw) ELSE kw
        type2 == IF kw2 /= Keyword_UNKNOWN THEN "Keyword" ELSE type
    IN  [tok |-> Token(type2, value, kw2, start_line, start_column), st |-> st1]

(***************************************************************************)
(* scan_number                                                             *)
(***************************************************************************)
\* Variant: the dot is accepted after the exponent marker too.
RECURSIVE NumberLoop_dotexp(_, _, _, _)
NumberLoop_dotexp(inp, st, has_dot, has_exp) ==
    IF st.position >= Len(inp) THEN st
    ELSE LET ch == At(inp, st.position) IN
         IF is_digit(ch) THEN NumberLoop_dotexp(inp, Advance(st, 1), has_dot, has_exp)
         ELSE IF ch = B.DOT /\ ~has_dot
              THEN NumberLoop_dotexp(inp, Advance(st, 1), TRUE, has_exp)
         ELSE IF (ch = B.LE \/ ch = B.UE) /\ ~has_exp
              THEN LET st1 == Advance(st, 1)
                       st2 == IF st1.position < Len(inp)
                                 /\ (At(inp, st1.position) = B.PLUS
                                     \/ At(inp, st1.position) = B.MINUS)
                              THEN Advance(st1, 1) ELSE st1
                   IN  NumberLoop_dotexp(inp, st2, has_dot, TRUE)
         ELSE st

RECURSIVE NumberLoop(_, _, _, _)
NumberLoop(inp, st, has_dot, has_exp) ==
    IF st.position >= Len(inp) THEN st
    ELSE LET ch == At(inp, st.position) IN
         IF is_digit(ch) THEN NumberLoop(inp, Advance(st, 1), has_dot, has_exp)
         ELSE IF ch = B.DOT /\ ~has_dot /\ ~has_exp
              THEN NumberLoop(inp, Advance(st, 1), TRUE, has_exp)
         ELSE IF (ch = B.LE \/ ch = B.UE) /\ ~has_exp
              THEN LET st1 == Advance(st, 1)
                       st2 == IF st1.position < Len(inp)
                                 /\ (At(inp, st1.position) = B.PLUS
                                     \/ At(inp, st1.position) = B.MINUS)
                              THEN Advance(st1, 1) ELSE st1
                   IN  NumberLoop(inp, st2, has_dot, TRUE)
         ELSE st

scan_number(inp, st, start, start_line, start_column) ==
    LET st1 == NumberLoop(inp, st, FALSE, FALSE)
    IN  [tok |-> Token("Number", StringView(start, st1.position),
                       Keyword_UNKNOWN, start_line, start_column),
         st |-> st1]

(***************************************************************************)
(* scan_string                                                             *)
(***************************************************************************)
\* Variant: a doubled quote is not treated as an escape.
IsEscapedQuote_never(inp, p, quote) == FALSE

\* Variant: either quote character after the quote makes an escaped pair.
IsEscapedQuote_anyquote(inp, p, quote) ==
    p + 1 < Len(inp) /\ is_quote(At(inp, p + 1))

IsEscapedQuote(inp, p, quote) ==
    p + 1 < Len(inp) /\ At(inp, p + 1) = quote

\* Variant: a doubled quote advances the scan by one byte only.
RECURSIVE StringLoop_skip1(_, _, _)
StringLoop_skip1(inp, st, quote) ==
    IF st.position >= Len(inp) THEN st
    ELSE LET ch == At(inp, st.position) IN
         IF ch = quote
         THEN IF IsEscapedQuote(inp, st.position, quote)
              THEN StringLoop_skip1(inp, Advance(st, 1), quote)
              ELSE Advance(st, 1)
         ELSE IF ch = B.LF THEN StringLoop_skip1(inp, NewLine(st), quote)
         ELSE StringLoop_skip1(inp, Advance(st, 1), quote)

RECURSIVE StringLoop(_, _, _)
StringLoop(inp, st, quote) ==
    IF st.position >= Len(inp) THEN st
    ELSE LET ch == At(inp, st.position) IN
         IF ch = quote
         THEN IF IsEscapedQuote(inp, st.position, quote)
              THEN StringLoop(inp, Advance(st, 2), quote)
              ELSE Advance(st, 1)
         ELSE IF ch = B.LF THEN StringLoop(inp, NewLine(st), quote)
         ELSE StringLoop(inp, Advance(st, 1), quote)

scan_string(inp, st, start, start_line, start_column, quote) ==
    LET st1 == StringLoop(inp, Advance(st, 1), quote)
    IN  [tok |-> Token("String", StringView(start, st1.position),
                       Keyword_UNKNOWN, start_line, start_column),
         st |-> st1]

(***************************************************************************)
(* scan_comment (line comment)                                             *)
(***************************************************************************)
\* Variant: the scan stops before the newline and leaves it unread.
RECURSIVE CommentLoop_nolf(_, _)
CommentLoop_nolf(inp, st) ==
    IF st.position >= Len(inp) THEN st
    ELSE IF At(inp, st.position) = B.LF THEN st
    ELSE CommentLoop_nolf(inp, Advance(st, 1))

RECURSIVE CommentLoop(_, _)
CommentLoop(inp, st) ==
    IF st.position >= Len(inp) THEN st
    ELSE IF At(inp, st.position) = B.LF THEN NewLine(st)
    ELSE CommentLoop(inp, Advance(st, 1))

scan_comment(inp, st, start, start_line, start_column) ==
    LET st1 == CommentLoop(inp, Advance(st, 2))
    IN  [tok |-> Token("Comment", StringView(start, st1.position),
                       Keyword_UNKNOWN, start_line, start_column),
         st |-> st1]

(***************************************************************************)
(* scan_block_comment                                                      *)
(***************************************************************************)
BlockLoopGuard(inp, p) == p + 1 < Len(inp)

\* Variant: an opener inside the comment asks for one more closer.
RECURSIVE BlockNest(_, _, _)
BlockNest(inp, st, depth) ==
    IF ~BlockLoopGuard(inp, st.position) THEN st
    ELSE IF At(inp, st.position) = B.STAR /\ At(inp, st.position + 1) = B.SLASH
         THEN IF depth = 1 THEN Advance(st, 2)
              ELSE BlockNest(inp, Advance(st, 2), depth - 1)
    ELSE IF At(inp, st.position) = B.SLASH /\ At(inp, st.position + 1) = B.STAR
         THEN BlockNest(inp, Advance(st, 2), depth + 1)
    ELSE IF At(inp, st.position) = B.LF THEN BlockNest(inp, NewLine(st), depth)
    ELSE BlockNest(inp, Advance(st, 1), depth)

BlockLoop_nest(inp, st) == BlockNest(inp, st, 1)

\* Variant: a newline inside the comment is counted as an ordinary byte.
RECURSIVE BlockLoop_nonl(_, _)
BlockLoop_nonl(inp, st) ==
    IF ~BlockLoopGuard(inp, st.position) THEN st
    ELSE IF At(inp, st.position) = B.STAR /\ At(inp, st.position + 1) = B.SLASH
         THEN Advance(st, 2)
    ELSE BlockLoop_nonl(inp, Advance(st, 1))

RECURSIVE BlockLoop(_, _)
BlockLoop(inp, st) ==
    IF ~BlockLoopGuard(inp, st.position) THEN st
    ELSE IF At(inp, st.position) = B.STAR /\ At(inp, st.position + 1) = B.SLASH
         THEN Advance(st, 2)
    ELSE IF At(inp, st.position) = B.LF THEN BlockLoop(inp, NewLine(st))
    ELSE BlockLoop(inp, Advance(st, 1))

scan_block_comment(inp, st, start, start_line, start_column) ==
    LET st1 == BlockLoop(inp, Advance(st, 2))
    IN  [tok |-> Token("Comment", StringView(start, st1.position),
                       Keyword_UNKNOWN, start_line, start_column),
         st |-> st1]

(***************************************************************************)
(* scan_operator_or_delimiter                                              *)
(***************************************************************************)
\* Variant: the arrow (minus, greater-than) is also taken as a pair.
IsExtensionPair_arrow(ch, next) ==
    \/ (ch = B.LT /\ (next = B.EQ \/ next = B.GT))
    \/ (ch = B.GT /\ next = B.EQ)
    \/ (ch = B.BANG /\ next = B.EQ)
    \/ (ch = B.EQ /\ next = B.EQ)
    \/ (ch = B.PIPE /\ next = B.PIPE)
    \/ (ch = B.AMP /\ next = B.AMP)
    \/ (ch = B.COLON /\ next = B.COLON)
    \/ (ch = B.LT /\ next = B.LT)
    \/ (ch = B.GT /\ next = B.GT)
    \/ (ch = B.MINUS /\ next = B.GT)

\* Variant: without the double-equals line.
IsExtensionPair_noeqeq(ch, next) ==
    \/ (ch = B.LT /\ (next = B.EQ \/ next = B.GT))
    \/ (ch = B.GT /\ next = B.EQ)
    \/ (ch = B.BANG /\ next = B.EQ)
    \/ (ch = B.PIPE /\ next = B.PIPE)
    \/ (ch = B.AMP /\ next = B.AMP)
    \/ (ch = B.COLON /\ next = B.COLON)
    \/ (ch = B.LT /\ next = B.LT)
    \/ (ch = B.GT /\ next = B.GT)

\* Variant: without the left-shift line.
IsExtensionPair_noshl(ch, next) ==
    \/ (ch = B.LT /\ (next = B.EQ \/ next = B.GT))
    \/ (ch = B.GT /\ next = B.EQ)
    \/ (ch = B.BANG /\ next = B.EQ)
    \/ (ch = B.EQ /\ next = B.EQ)
    \/ (ch = B.PIPE /\ next = B.PIPE)
    \/ (ch = B.AMP /\ next = B.AMP)
    \/ (ch = B.COLON /\ next = B.COLON)
    \/ (ch = B.GT /\ next = B.GT)

IsExtensionPair(ch, next) ==
    \/ (ch = B.LT /\ (next = B.EQ \/ next = B.GT))
    \/ (ch = B.GT /\ next = B.EQ)
    \/ (ch = B.BANG /\ next = B.EQ)
    \/ (ch = B.EQ /\ next = B.EQ)
    \/ (ch = B.PIPE /\ next = B.PIPE)
    \/ (ch = B.AMP /\ next = B.AMP)
    \/ (ch = B.COLON /\ next = B.COLON)
    \/ (ch = B.LT /\ next = B.LT)
    \/ (ch = B.GT /\ next = B.GT)

\* Variant: a two-byte token is always an Operator.
scan_operator_or_delimiter_optwo(inp, st, start, start_line, start_column) ==
    LET ch == At(inp, st.position)
        st1 == Advance(st, 1)
        st2 == IF st1.position < Len(inp)
                  /\ IsExtensionPair(ch, At(inp, st1.position))
               THEN Advance(st1, 1) ELSE st1
        type == IF is_delimiter(ch) /\ st2 = st1 THEN "Delimiter" ELSE "Operator"
    IN  [tok |-> Token(type, StringView(start, st2.position),
                       Keyword_UNKNOWN, start_line, start_column),
         st |-> st2]

scan_operator_or_delimiter(inp, st, start, start_line, start_column) ==
    LET ch == At(inp, st.position)
        st1 == Advance(st, 1)
        type == IF is_delimiter(ch) THEN "Delimiter" ELSE "Operator"
        st2 == IF st1.position < Len(inp)
                  /\ IsExtensionPair(ch, At(inp, st1.position))
               THEN Advance(st1, 1) ELSE st1
    IN  [tok |-> Token(type, StringView(start, st2.position),
                       Keyword_UNKNOWN, start_line, start_column),
         st |-> st2]

(***************************************************************************)
(* next_token                                                              *)
(***************************************************************************)
next_token(inp, st) ==
    IF st.position >= Len(inp)
    THEN [tok |-> Token("EndOfFile", StringView(st.position, st.position),
                        Keyword_UNKNOWN, st.line, st.column),
          st |-> st]
    ELSE LET start == st.position
             start_line == st.line
             start_column == st.column
             first_char == At(inp, st.position)
         IN  IF is_identifier_start(first_char)
             THEN scan_identifier_or_keyword(inp, st, start, start_line, start_column)
             ELSE IF is_digit(first_char)
             THEN scan_number(inp, st, start, start_line, start_column)
             ELSE IF is_quote(first_char)
             THEN scan_string(inp, st, start, start_line, start_column, first_char)
             ELSE IF first_char = B.MINUS /\ st.position + 1 < Len(inp)
                     /\ At(inp, st.position + 1) = B.MINUS
             THEN scan_comment(inp, st, start, start_line, start_column)
             ELSE IF first_char = B.SLASH /\ st.position + 1 < Len(inp)
                     /\ At(inp, st.position + 1) = B.STAR
             THEN scan_block_comment(inp, st, start, start_line, start_column)
             ELSE scan_operator_or_delimiter(inp, st, start, start_line, start_column)

(***************************************************************************)
(* Input families.  Every byte string is a legal input; the families pick  *)
(* the bytes each scanner reacts to and bound the length.                  *)
(***************************************************************************)
MaxLen == 4
MaxLenWide == 2
MaxLenBlock == 7
MaxLenRun == 7
MaxLenOp == 4
MaxLenStr == 6
MaxLenKw == 5
MaxLenLive == 3
MaxLenNum == 5
MaxLenSimd == 3
MaxCalls == 2

SeqsUpTo(S, n) == UNION {[1..k -> S] : k \in 0..n}

GenBytes == {B.SP, B.LF, B.LA, B.D1, B.SQ, B.MINUS, B.SLASH, B.STAR}

WideBytes == {B.BANG, B.PCT, B.AMP, B.STAR, B.PLUS, B.MINUS, B.DOT, B.SLASH,
              B.LT, B.EQ, B.GT, B.CARET, B.PIPE, B.TILDE,
              B.LPAR, B.RPAR, B.COMMA, B.COLON, B.SEMI, B.LBRK, B.RBRK,
              B.LBRC, B.RBRC,
              B.SQ, B.DQ, B.LA, B.USCORE, B.D0, B.SP, B.LF, B.TAB, B.CR,
              B.VT, B.QMARK, B.HI}

BlockBytes == {B.SLASH, B.STAR, B.LF, B.LA}

RunBytes == {B.EQ, B.LA, B.SP}

OpBytes == {B.LT, B.EQ, B.GT, B.BANG, B.PIPE, B.AMP, B.COLON, B.MINUS,
            B.LA, B.SP}

StrBytes == {B.SQ, B.DQ, B.LA, B.LF}

NumBytes == {B.D1, B.DOT, B.LE, B.UE, B.PLUS, B.MINUS}

KwBytes == {B.LO, B.UR, B.LR, B.D1, B.SP}

\* Every byte value alone and followed by each byte of WideBytes.
ByteInputs == {<<b>> : b \in 0..255}
              \cup {<<b, c>> : b \in 0..255, c \in WideBytes}

\* Whitespace runs that straddle the 16-, 32- and 64-byte lanes, uniform or
\* mixed, alone or followed by a token and later whitespace.
WsRunLens == {15, 16, 17, 31, 32, 33, 63, 64, 65}

WsPatterns == { <<B.SP>>, <<B.LF>>, <<B.SP, B.TAB, B.LF, B.CR>> }

WsSuffixes == { <<>>, <<B.LA>>, <<B.LA, B.SP>>, <<B.VT>>,
                <<B.LA, B.SP, B.LF, B.SP, B.LA>> }

WsInputs == { [k \in 1..n |-> pat[((k - 1) % Len(pat)) + 1]] \o suf :
                n \in WsRunLens, pat \in WsPatterns, suf \in WsSuffixes }

(***************************************************************************)
(* Inputs of test_operators.cpp, test_invalid_operators.cpp and of the     *)
(* documented scenarios.                                                   *)
(***************************************************************************)
Scenarios == {
    <<97, 32, 61, 32, 98>>,  \* a = b
    <<97, 32, 61, 61, 32, 98>>,  \* a == b
    <<97, 32, 33, 61, 32, 98>>,  \* a != b
    <<97, 32, 60, 62, 32, 98>>,  \* a <> b
    <<97, 32, 60, 32, 98>>,  \* a < b
    <<97, 32, 62, 32, 98>>,  \* a > b
    <<97, 32, 60, 61, 32, 98>>,  \* a <= b
    <<97, 32, 62, 61, 32, 98>>,  \* a >= b
    <<97, 32, 43, 32, 98>>,  \* a + b
    <<97, 32, 45, 32, 98>>,  \* a - b
    <<97, 32, 42, 32, 98>>,  \* a * b
    <<97, 32, 47, 32, 98>>,  \* a / b
    <<97, 32, 37, 32, 98>>,  \* a % b
    <<97, 32, 65, 78, 68, 32, 98>>,  \* a AND b
    <<97, 32, 79, 82, 32, 98>>,  \* a OR b
    <<78, 79, 84, 32, 97>>,  \* NOT a
    <<97, 32, 38, 38, 32, 98>>,  \* a && b
    <<97, 32, 124, 124, 32, 98>>,  \* a || b
    <<97, 32, 38, 32, 98>>,  \* a & b
    <<97, 32, 124, 32, 98>>,  \* a | b
    <<97, 32, 94, 32, 98>>,  \* a ^ b
    <<126, 97>>,  \* ~a
    <<97, 32, 60, 60, 32, 98>>,  \* a << b
    <<97, 32, 62, 62, 32, 98>>,  \* a >> b
    <<97, 58, 58, 116, 101, 120, 116>>,  \* a::text
    <<97, 46, 98>>,  \* a.b
    <<97, 45, 62, 98>>,  \* a->b
    <<97, 45, 62, 62, 98>>,  \* a->>b
    <<97, 32, 61, 61, 61, 32, 98>>,  \* a === b
    <<97, 32, 61, 61, 61, 61, 32, 98>>,  \* a ==== b
    <<97, 32, 33, 61, 61, 32, 98>>,  \* a !== b
    <<97, 32, 60, 60, 60, 32, 98>>,  \* a <<< b
    <<97, 32, 62, 62, 62, 32, 98>>,  \* a >>> b
    <<40, 97, 43, 98, 41, 42, 99>>,  \* (a+b)*c
    <<97, 32, 62, 61, 32, 49, 48, 32, 65, 78, 68, 32, 98, 32, 60, 61, 32, 50, 48>>,  \* a >= 10 AND b <= 20
    <<67, 65, 83, 69, 32, 87, 72, 69, 78, 32, 97, 32, 61, 61, 32, 98, 32, 84, 72, 69, 78, 32, 49, 32, 69, 76, 83, 69, 32, 48, 32, 69, 78, 68>>,  \* CASE WHEN a == b THEN 1 ELSE 0 END
    <<83, 69, 76, 69, 67, 84, 32, 42, 32, 70, 82, 79, 77, 32, 116, 32, 87, 72, 69, 82, 69, 32, 120, 32, 33, 61, 32, 121>>,  \* SELECT * FROM t WHERE x != y
    <<120, 32, 61, 61, 61, 61, 32, 121>>,  \* x ==== y
    <<40, 97, 32, 61, 61, 61, 32, 98, 41, 32, 38, 38, 32, 40, 99, 32, 33, 61, 61, 32, 100, 41>>,  \* (a === b) && (c !== d)
    <<83, 69, 76, 69, 67, 84, 32, 42, 32, 87, 72, 69, 82, 69, 32, 120, 32, 61, 61, 61, 32, 49, 48, 32, 79, 82, 32, 121, 32, 33, 61, 61, 32, 50, 48>>,  \* SELECT * WHERE x === 10 OR y !== 20
    <<97, 32, 61, 61, 61, 61, 61, 32, 98>>,  \* a ===== b
    <<118, 97, 108, 117, 101, 32, 61, 61, 61>>,  \* value ===
    <<61, 61, 61, 32, 118, 97, 108, 117, 101>>,  \* === value
    <<97, 60, 61, 98>>,  \* a<=b
    <<39, 105, 116, 39, 39, 115, 39>>,  \* 'it''s'
    <<47, 42, 32, 104, 105, 10, 32, 116, 104, 101, 114, 101, 32, 42, 47, 120>>,  \* /* hi\n there */x
    <<49, 46, 53, 101, 43, 51>>,  \* 1.5e+3
    <<34>>,  \* "
    <<47, 42, 32, 97, 32, 47, 42, 32, 98, 32, 42, 47, 32, 99, 32, 42, 47>>,  \* /* a /* b */ c */
    <<47, 42, 47, 32, 120, 32, 42, 47>>,  \* /*/ x */
    <<47, 42, 47>>,  \* /*/
    <<49, 46, 50, 46, 51>>,  \* 1.2.3
    <<49, 101, 53, 46, 53>>,  \* 1e5.5
    <<49, 101, 43, 45, 51>>,  \* 1e+-3
    <<49, 97, 98, 99>>,  \* 1abc
    <<39, 39>>,  \* ''
    <<39, 39, 39>>,  \* '''
    <<39, 97, 39, 39>>   \* 'a''
    }

Inputs == SeqsUpTo(GenBytes, MaxLen) \cup SeqsUpTo(WideBytes, MaxLenWide)
          \cup SeqsUpTo(BlockBytes, MaxLenBlock) \cup SeqsUpTo(RunBytes, MaxLenRun)
          \cup SeqsUpTo(OpBytes, MaxLenOp) \cup SeqsUpTo(StrBytes, MaxLenStr)
          \cup SeqsUpTo(KwBytes, MaxLenKw) \cup SeqsUpTo(NumBytes, MaxLenNum)
          \cup Scenarios
          \cup ByteInputs \cup WsInputs

(***************************************************************************)
(* SimdTokenizer(input, size) and the tokenize() loop.                     *)
(***************************************************************************)
Init ==
    /\ input \in Inputs
    /\ position = 0
    /\ line = 1
    /\ column = 1
    /\ tokens = <<>>
    /\ pc = "idle"
    /\ calls = 0
    /\ simd_kw = Keyword_UNKNOWN

State == Pos(position, line, column)

SetState(st) ==
    /\ position' = st.position
    /\ line' = st.line
    /\ column' = st.column

\* Variant: the end-of-input test after the whitespace skip never breaks.
AtEnd_never(p, size) == FALSE

\* Variant: the test after the skip breaks one byte early.
AtEnd_early(p, size) == p + 1 >= size

AtEnd(p, size) == p >= size

\* Variant: tokenize() starts over from the beginning of the input.
Tokenize_reset ==
    /\ pc = "idle"
    /\ calls < MaxCalls
    /\ tokens' = <<>>
    /\ position' = 0
    /\ line' = 1
    /\ column' = 1
    /\ pc' = "loop"
    /\ calls' = calls + 1
    /\ UNCHANGED <<input, simd_kw>>

\* tokenize() is entered: a fresh local vector, the position state is kept.
Tokenize ==
    /\ pc = "idle"
    /\ calls < MaxCalls
    /\ tokens' = <<>>
    /\ pc' = "loop"
    /\ calls' = calls + 1
    /\ UNCHANGED <<input, position, line, column, simd_kw>>

\* Loop head and whitespace skip: lines 27-41.
SkipWhitespace ==
    /\ pc = "loop"
    /\ position < Len(input)
    /\ \E tier \in Tiers :
         LET skip == dispatch(tier, input, position, Len(input) - position).n
             st1 == IF skip > 0 THEN update_position(input, State, skip)
                    ELSE State
         IN  /\ SetState(st1)
             /\ pc' = IF AtEnd(st1.position, Len(input)) THEN "idle"
                      ELSE "next"
    /\ UNCHANGED <<input, tokens, calls, simd_kw>>

\* next_token() and push_back: lines 43-50.
NextToken ==
    /\ pc = "next"
    /\ LET r == next_token(input, State)
       IN  /\ SetState(r.st)
           /\ tokens' = IF r.tok.type /= "Whitespace"
                        THEN Append(tokens, r.tok) ELSE tokens
           /\ pc' = IF r.tok.type = "EndOfFile" THEN "idle" ELSE "loop"
    /\ UNCHANGED <<input, calls, simd_kw>>

\* The while condition fails: return tokens.
LoopExit ==
    /\ pc = "loop"
    /\ ~(position < Len(input))
    /\ pc' = "idle"
    /\ UNCHANGED <<input, position, line, column, tokens, calls, simd_kw>>

Next == Tokenize \/ SkipWhitespace \/ NextToken \/ LoopExit

Spec == Init /\ [][Next]_vars

\* The calling thread keeps running tokenize() until it returns: a step that
\* is enabled is eventually taken.
\* Bytes that reach the whitespace skip and the identifier, string, line
\* comment, block comment and operator scanners.
LiveBytes == {B.SP, B.LA, B.SQ, B.MINUS, B.SLASH, B.STAR}

LiveInputs == SeqsUpTo(LiveBytes, MaxLenLive)

LiveInit ==
    /\ input \in LiveInputs
    /\ position = 0
    /\ line = 1
    /\ column = 1
    /\ tokens = <<>>
    /\ pc = "idle"
    /\ calls = 0
    /\ simd_kw = Keyword_UNKNOWN

FairSpec == LiveInit /\ [][Next]_vars /\ WF_vars(Next)

(***************************************************************************)
(* The tokenizer with a second lookup that may report any known id, or     *)
(* nothing, for the lexemes the dictionary does not know.                  *)
(***************************************************************************)
SimdOutcomes == {Keyword_UNKNOWN} \cup {k.id : k \in KeywordTable}

SimdInputs == SeqsUpTo(KwBytes, MaxLenSimd) \cup { <<105, 110>> }

SimdInit ==
    /\ input \in SimdInputs
    /\ position = 0
    /\ line = 1
    /\ column = 1
    /\ tokens = <<>>
    /\ pc = "idle"
    /\ calls = 0
    /\ simd_kw \in SimdOutcomes

SimdSpec == SimdInit /\ [][Next]_vars

(***************************************************************************)
(* Vocabulary of the properties.  The byte classes are written here as     *)
(* ranges and enumerations, independently of char_lookup_table.            *)
(***************************************************************************)
\* The first tokenize() call on the instance has returned `tokens`.
Returned == pc = "idle" /\ calls = 1

TokStart(t) == t.value.start

TokEnd(t) == t.value.start + t.value.len

WhitespaceBytes == {32, 9, 10, 13}

IsLetterOrUnderscore(b) == (b >= 65 /\ b <= 90) \/ (b >= 97 /\ b <= 122) \/ b = 95

IsDecimalDigit(b) == b >= 48 /\ b <= 57

QuoteBytes == {39, 34}

DelimiterBytes == {40, 41, 44, 58, 59, 91, 93, 123, 125}

\* Offsets of the input covered by token i.
Covered(i) == {p \in 0..(Len(input) - 1) :
                 TokStart(tokens[i]) <= p /\ p < TokEnd(tokens[i])}

\* Tokens' values in order, each preceded by the bytes between the end of
\* the previous value and its start, followed by the bytes after the last.
RECURSIVE Reserialize(_, _, _)
Reserialize(inp, toks, from) ==
    IF toks = <<>> THEN SubSeq(inp, from + 1, Len(inp))
    ELSE LET t == Head(toks)
         IN  SubSeq(inp, from + 1, TokStart(t)) \o Bytes(inp, t.value)
             \o Reserialize(inp, Tail(toks), TokEnd(t))

\* Number of LF bytes in inp[0..o) and offset of the last LF before o.
LFCount(inp, o) == Cardinality({p \in 0..(o - 1) : At(inp, p) = 10})

LastLF(inp, o) ==
    LET S == {p \in 0..(o - 1) : At(inp, p) = 10}
    IN  IF S = {} THEN -1 ELSE CHOOSE p \in S : \A r \in S : r <= p

StartsWith(inp, o, b1, b2) ==
    o + 1 < Len(inp) /\ At(inp, o) = b1 /\ At(inp, o + 1) = b2

(***************************************************************************)
(* C1: after tokenize(), the token values in order, interleaved with the   *)
(* skipped bytes, reproduce the input byte-for-byte; every byte belongs to *)
(* exactly one token value or to a gap, and every gap byte is whitespace.  *)
(***************************************************************************)
C1_RoundTrip ==
    Returned =>
        /\ Reserialize(input, tokens, 0) = input
        /\ \A p \in 0..(Len(input) - 1) :
             LET owners == {i \in 1..Len(tokens) : p \in Covered(i)}
             IN  /\ Cardinality(owners) <= 1
                 /\ owners = {} => At(input, p) \in WhitespaceBytes
        /\ \A i \in 1..Len(tokens) : TokEnd(tokens[i]) <= Len(input)

\* Two tokens separated by a skipped gap, a third token right after, and
\* skipped bytes after the last token.
C1_Witness ==
    /\ Returned
    /\ Len(tokens) >= 2
    /\ TokEnd(tokens[1]) < TokStart(tokens[2])
    /\ TokEnd(tokens[Len(tokens)]) < Len(input)

(***************************************************************************)
(* C2: every token's line is 1 + the number of LF bytes before its start   *)
(* offset, and its column is the start offset minus the offset of the last *)
(* LF before it (-1 when there is none).                                   *)
(***************************************************************************)
C2_PositionFidelity ==
    \A i \in 1..Len(tokens) :
        LET o == TokStart(tokens[i])
        IN  /\ tokens[i].line = 1 + LFCount(input, o)
            /\ tokens[i].column = o - LastLF(input, o)

\* A token on line 3 that follows a closed multi-line block comment, which
\* itself follows a skipped newline.
C2_Witness ==
    /\ Returned
    /\ \E i \in 2..Len(tokens) :
         /\ tokens[i - 1].type = "Comment"
         /\ StartsWith(input, TokStart(tokens[i - 1]), 47, 42)
         /\ tokens[i - 1].value.len >= 4
         /\ StartsWith(input, TokEnd(tokens[i - 1]) - 2, 42, 47)
         /\ \E p \in Covered(i - 1) : At(input, p) = 10
         /\ tokens[i - 1].line = 2
         /\ tokens[i].line = 3
         /\ tokens[i].column >= 2

(***************************************************************************)
(* C3: a Comment token that starts with an unclosed block-comment opener   *)
(* (no closing star-slash at or after start + 2) extends to end-of-input   *)
(* and is the last token.                                                  *)
(***************************************************************************)
C3_UnterminatedBlockComment ==
    Returned =>
        \A i \in 1..Len(tokens) :
            LET o == TokStart(tokens[i])
            IN  ( /\ tokens[i].type = "Comment"
                  /\ StartsWith(input, o, 47, 42)
                  /\ ~ \E j \in (o + 2)..(Len(input) - 2) :
                         StartsWith(input, j, 42, 47) )
                => /\ TokEnd(tokens[i]) = Len(input)
                   /\ i = Len(tokens)

\* The ten two-byte operators, listed as byte pairs:
\* <=  <>  <<  >=  >>  !=  ==  ||  &&  ::
TenPairs == { <<60, 61>>, <<60, 62>>, <<60, 60>>, <<62, 61>>, <<62, 62>>,
              <<33, 61>>, <<61, 61>>, <<124, 124>>, <<38, 38>>, <<58, 58>> }

IsOpOrDelim(t) == t.type \in {"Operator", "Delimiter"}

\* The token values as byte strings, in order.
Values == [i \in 1..Len(tokens) |-> Bytes(input, tokens[i].value)]

(***************************************************************************)
(* C4: every Operator or Delimiter token has length 1 or 2, and a length-2 *)
(* one is one of the ten pairs.                                            *)
(***************************************************************************)
C4_OperatorMaximality ==
    \A i \in 1..Len(tokens) :
        IsOpOrDelim(tokens[i]) =>
            /\ tokens[i].value.len \in {1, 2}
            /\ tokens[i].value.len = 2 => Values[i] \in TenPairs

\* The arrow followed by greater-than: minus alone, then the pair >>.
C4_Witness ==
    /\ Returned
    /\ \E i \in 1..(Len(tokens) - 1) :
         /\ Values[i] = <<45>>
         /\ Values[i + 1] = <<62, 62>>
         /\ TokEnd(tokens[i]) = TokStart(tokens[i + 1])
         /\ IsOpOrDelim(tokens[i]) /\ IsOpOrDelim(tokens[i + 1])

(***************************************************************************)
(* C5: a maximal run of n equals signs at whose first byte a token starts  *)
(* yields floor(n/2) double-equals tokens followed by one single equals    *)
(* when n is odd, wherever the run lies; and the listed sequences split as *)
(* stated.                                                                 *)
(***************************************************************************)
RunLen(inp, s) ==
    LET E == {e \in s..Len(inp) : \A p \in s..(e - 1) : At(inp, p) = 61}
    IN  (CHOOSE e \in E : \A r \in E : r <= e) - s

TokenStartsAt(o) == \E i \in 1..Len(tokens) : TokStart(tokens[i]) = o

C5_GreedySplit ==
    Returned =>
        /\ \A i \in 1..Len(tokens) :
             LET s == TokStart(tokens[i])
                 n == RunLen(input, s)
             IN  (At(input, s) = 61 /\ (s = 0 \/ At(input, s - 1) /= 61)) =>
                   /\ i + ((n + 1) \div 2) - 1 <= Len(tokens)
                   /\ \A k \in 0..(((n + 1) \div 2) - 1) :
                        /\ TokStart(tokens[i + k]) = s + 2 * k
                        /\ tokens[i + k].type = "Operator"
                        /\ Values[i + k] =
                             IF 2 * k + 1 < n THEN <<61, 61>> ELSE <<61>>
        /\ input = <<61, 61, 61>> => Values = << <<61, 61>>, <<61>> >>
        /\ input = <<61, 61, 61, 61>> => Values = << <<61, 61>>, <<61, 61>> >>
        /\ input = <<61, 61, 61, 61, 61>>
             => Values = << <<61, 61>>, <<61, 61>>, <<61>> >>
        /\ input = <<33, 61, 61>> => Values = << <<33, 61>>, <<61>> >>
        /\ input = <<60, 60, 60>> => Values = << <<60, 60>>, <<60>> >>
        /\ input = <<62, 62, 62>> => Values = << <<62, 62>>, <<62>> >>
        /\ input = <<45, 62>> => Values = << <<45>>, <<62>> >>
        /\ input = <<45, 62, 62>> => Values = << <<45>>, <<62, 62>> >>

\* A run of five equals signs in the middle of the input.
C5_Witness ==
    /\ Returned
    /\ input = <<97, 61, 61, 61, 61, 61, 97>>
    /\ Values = << <<97>>, <<61, 61>>, <<61, 61>>, <<61>>, <<97>> >>

(***************************************************************************)
(* C6: an Operator or Delimiter token (one produced by operator scanning)  *)
(* that starts at c1 has length 2 when the next byte c2 exists and (c1,c2) *)
(* is one of the ten pairs, and length 1 otherwise.                        *)
(***************************************************************************)
C6_ExtensionTaken ==
    \A i \in 1..Len(tokens) :
        LET o == TokStart(tokens[i])
        IN  IsOpOrDelim(tokens[i]) =>
              tokens[i].value.len =
                IF o + 1 < Len(input)
                   /\ <<At(input, o), At(input, o + 1)>> \in TenPairs
                THEN 2 ELSE 1

\* a<=b without whitespace: the pair is one token between two identifiers.
C6_Witness ==
    /\ Returned
    /\ input = <<97, 60, 61, 98>>
    /\ Values = << <<97>>, <<60, 61>>, <<98>> >>

(***************************************************************************)
(* C7: the returned sequence holds no Whitespace, EndOfFile or Unknown     *)
(* token, and next_token is never invoked at offset = len.                 *)
(***************************************************************************)
C7_NoWhitespaceNoEof ==
    /\ \A i \in 1..Len(tokens) :
         tokens[i].type \notin {"Whitespace", "EndOfFile", "Unknown"}
    /\ pc = "next" => position < Len(input)

\* Whitespace after the last token was skipped up to the end of the input.
C7_Witness ==
    /\ Returned
    /\ Len(tokens) >= 1
    /\ TokEnd(tokens[Len(tokens)]) < Len(input)
    /\ position = Len(input)

(***************************************************************************)
(* C8 (as amended): a String token starts at an opening quote q.  After    *)
(* the opening quote the q bytes form maximal runs; the literal is closed  *)
(* by the last byte of the first run of odd length (the pairs before it    *)
(* are escaped quotes) and the value then includes both quotes; when no    *)
(* run is odd the value extends to end-of-input.  The other quote          *)
(* character never closes it; a lone double quote is one String token of   *)
(* length 1.                                                               *)
(***************************************************************************)
\* Length of the run of q bytes that ends at offset j, counted after o.
QuoteRunBack(inp, o, j, q) ==
    LET S == {b \in (o + 1)..j : \A p \in b..j : At(inp, p) = q}
    IN  Cardinality(S)

\* Offsets after o holding a q that is not immediately followed by a q.
LoneQuotes(inp, o, q) ==
    {j \in (o + 1)..(Len(inp) - 1) :
        /\ At(inp, j) = q
        /\ ~(j + 1 < Len(inp) /\ At(inp, j + 1) = q)}

OddRunEnds(inp, o, q) ==
    {j \in LoneQuotes(inp, o, q) : QuoteRunBack(inp, o, j, q) % 2 = 1}

Least(S) == CHOOSE x \in S : \A y \in S : x <= y

C8_StringExtent ==
    /\ \A i \in 1..Len(tokens) :
         tokens[i].type = "String" =>
            LET o == TokStart(tokens[i])
                q == At(input, o)
                T == OddRunEnds(input, o, q)
            IN  /\ q \in QuoteBytes
                /\ IF T /= {}
                   THEN /\ TokEnd(tokens[i]) = Least(T) + 1
                        /\ tokens[i].value.len >= 2
                        /\ At(input, TokEnd(tokens[i]) - 1) = q
                   ELSE TokEnd(tokens[i]) = Len(input)
    /\ (Returned /\ input = <<34>>) =>
          /\ Len(tokens) = 1
          /\ tokens[1].type = "String"
          /\ tokens[1].value = [start |-> 0, len |-> 1]

\* A closed literal that holds an escaped pair and the other quote
\* character, with input left after it.
C8_Witness ==
    /\ Returned
    /\ \E i \in 1..Len(tokens) :
         LET o == TokStart(tokens[i])
             q == At(input, o)
         IN  /\ tokens[i].type = "String"
             /\ TokEnd(tokens[i]) < Len(input)
             /\ \E p \in Covered(i) :
                  p > o /\ p + 2 < TokEnd(tokens[i])
                  /\ At(input, p) = q /\ At(input, p + 1) = q
             /\ \E p \in Covered(i) :
                  At(input, p) \in QuoteBytes /\ At(input, p) /= q

\* C8 as originally stated: whenever a q that is not immediately followed
\* by another q exists after the opening quote, the value ends with such a
\* q; otherwise the value runs to end-of-input.
C8_Original ==
    \A i \in 1..Len(tokens) :
        tokens[i].type = "String" =>
           LET o == TokStart(tokens[i])
               q == At(input, o)
               T == LoneQuotes(input, o, q)
           IN  IF T /= {}
               THEN (TokEnd(tokens[i]) - 1) \in T
               ELSE TokEnd(tokens[i]) = Len(input)

(***************************************************************************)
(* C9: the first byte of every token agrees with its kind: Identifier or   *)
(* Keyword - letter or underscore; Number - digit; String - quote;         *)
(* Comment - the value starts with two minus signs or slash-star;          *)
(* Delimiter - a delimiter byte; Operator - none of letter, underscore,    *)
(* digit, quote, delimiter, whitespace.                                    *)
(***************************************************************************)
C9_ClassSoundness ==
    \A i \in 1..Len(tokens) :
        LET t == tokens[i]
            o == TokStart(t)
            c == At(input, o)
        IN  /\ o < Len(input)
            /\ t.type \in {"Identifier", "Keyword"} => IsLetterOrUnderscore(c)
            /\ t.type = "Number" => IsDecimalDigit(c)
            /\ t.type = "String" => c \in QuoteBytes
            /\ t.type = "Comment" =>
                  /\ t.value.len >= 2
                  /\ StartsWith(input, o, 45, 45) \/ StartsWith(input, o, 47, 42)
            /\ t.type = "Delimiter" => c \in DelimiterBytes
            /\ t.type = "Operator" =>
                  /\ ~IsLetterOrUnderscore(c)
                  /\ ~IsDecimalDigit(c)
                  /\ c \notin QuoteBytes
                  /\ c \notin DelimiterBytes
                  /\ c \notin WhitespaceBytes

\* A Keyword, a Number and an Operator on a byte of empty class side by side
\* with other kinds.
C9_Witness ==
    /\ Returned
    /\ \E i, j \in 1..Len(tokens) :
         /\ tokens[i].type = "Keyword"
         /\ tokens[j].type = "Number"
    /\ \E i \in 1..Len(tokens) : tokens[i].type = "Identifier"

(***************************************************************************)
(* C10: token start offsets are strictly increasing, every value is        *)
(* non-empty, each token starts at or after the end of the previous one,   *)
(* and the token count never exceeds the input length.                     *)
(***************************************************************************)
C10_StrictOrder ==
    /\ \A i \in 1..Len(tokens) : tokens[i].value.len >= 1
    /\ \A i \in 1..(Len(tokens) - 1) :
         /\ TokStart(tokens[i]) < TokStart(tokens[i + 1])
         /\ TokEnd(tokens[i]) <= TokStart(tokens[i + 1])
    /\ Len(tokens) <= Len(input)

\* Every byte of a four-byte input is a token of its own.
C10_Witness ==
    /\ Returned
    /\ Len(input) >= 4
    /\ Len(tokens) = Len(input)

(***************************************************************************)
(* C11: tokenize() terminates having consumed the whole input: every       *)
(* next_token step and every skip that ends the loop strictly increases    *)
(* the offset, the offset never passes len, the loop is left only with     *)
(* offset = len, and a call that has entered the loop always returns.      *)
(***************************************************************************)
C11_Step ==
    /\ position' >= position
    /\ position' <= Len(input)
    /\ pc = "next" => position' > position
    /\ (pc = "loop" /\ pc' = "next") => position' < Len(input)
    /\ (pc = "loop" /\ pc' = "idle") => position' = Len(input)
    /\ (pc = "loop" /\ pc' = "idle" /\ position < Len(input))
          => position' > position

C11_TerminatesAtEnd ==
    /\ [][C11_Step]_vars
    /\ (pc = "loop") ~> (pc = "idle" /\ position = Len(input))

\* The first call has returned from a non-empty input that ends in a token
\* (loop left by its condition) after at least three tokens.
C11_Witness ==
    /\ Returned
    /\ position = Len(input)
    /\ Len(tokens) >= 3
    /\ TokEnd(tokens[Len(tokens)]) = Len(input)

(***************************************************************************)
(* C12: a byte of empty class (in none of the eight classes) that is not   *)
(* inside a String or Comment is a token of its own: kind Operator, value  *)
(* exactly that byte, whatever byte follows.                               *)
(***************************************************************************)
OperatorBytes == {33, 37, 38, 42, 43, 45, 46, 47, 60, 61, 62, 94, 124, 126}

EmptyClass(b) ==
    /\ b \notin WhitespaceBytes
    /\ ~IsLetterOrUnderscore(b)
    /\ ~IsDecimalDigit(b)
    /\ b \notin QuoteBytes
    /\ b \notin OperatorBytes
    /\ b \notin DelimiterBytes

C12_EmptyClassByte ==
    /\ \A i \in 1..Len(tokens) :
         \A p \in Covered(i) :
            (EmptyClass(At(input, p)) /\ tokens[i].type \notin {"String", "Comment"})
               => /\ tokens[i].type = "Operator"
                  /\ tokens[i].value = [start |-> p, len |-> 1]
    /\ Returned =>
         \A p \in 0..(Len(input) - 1) :
            EmptyClass(At(input, p)) => \E i \in 1..Len(tokens) : p \in Covered(i)

\* Byte 0xFF followed by an equals sign: two one-byte Operator tokens.
C12_Witness ==
    /\ Returned
    /\ input = <<255, 61>>
    /\ Values = << <<255>>, <<61>> >>
    /\ tokens[1].type = "Operator"

(***************************************************************************)
(* C13: a token that starts with a letter or underscore is Keyword with    *)
(* keyword_id = find_keyword(lexeme) when that is a known id, and          *)
(* Identifier with the unknown id otherwise, whatever any other lookup     *)
(* reports.                                                                *)
(***************************************************************************)
C13_KeywordLookup ==
    \A i \in 1..Len(tokens) :
        LET k == find_keyword(Values[i])
        IN  (IsLetterOrUnderscore(At(input, TokStart(tokens[i])))
             \/ tokens[i].type \in {"Identifier", "Keyword"})
            => IF k /= Keyword_UNKNOWN
               THEN tokens[i].type = "Keyword" /\ tokens[i].keyword_id = k
               ELSE /\ tokens[i].type = "Identifier"
                    /\ tokens[i].keyword_id = Keyword_UNKNOWN

(***************************************************************************)
(* C14: a token is Keyword exactly when its keyword_id is not the unknown  *)
(* sentinel.                                                               *)
(***************************************************************************)
C14_KeywordIffId ==
    \A i \in 1..Len(tokens) :
        (tokens[i].type = "Keyword") <=> (tokens[i].keyword_id /= Keyword_UNKNOWN)

\* Keyword, Identifier, Number and Operator tokens in one returned sequence.
C14_Witness ==
    /\ Returned
    /\ \E i, j, k, l \in 1..Len(tokens) :
         /\ tokens[i].type = "Keyword" /\ tokens[i].keyword_id /= Keyword_UNKNOWN
         /\ tokens[j].type = "Identifier"
         /\ tokens[k].type = "Number"
         /\ tokens[l].type = "Operator"

(***************************************************************************)
(* C15: for the 16-byte input "/* hi<LF> there */x" tokenize() returns     *)
(* exactly two tokens: one Comment at line 1, column 1 whose value is the  *)
(* first 15 bytes, then the Identifier "x" at line 2, column 10.           *)
(***************************************************************************)
C15_Input ==
    <<47, 42, 32, 104, 105, 10, 32, 116, 104, 101, 114, 101, 32, 42, 47, 120>>

C15_Shape(commentLen, xColumn) ==
    /\ Len(tokens) = 2
    /\ tokens[1].type = "Comment"
    /\ tokens[1].value = [start |-> 0, len |-> commentLen]
    /\ tokens[1].line = 1
    /\ tokens[1].column = 1
    /\ tokens[2].type = "Identifier"
    /\ Bytes(input, tokens[2].value) = <<120>>
    /\ TokStart(tokens[2]) = commentLen
    /\ tokens[2].line = 2
    /\ tokens[2].column = xColumn

C15_BlockCommentExample ==
    (Returned /\ input = C15_Input) => C15_Shape(15, 10)

C15_Witness ==
    /\ Returned
    /\ input = C15_Input
    /\ Len(tokens) = 2
    /\ TokEnd(tokens[2]) = Len(input)

\* The statement with the figures as given: length 13 and column 11.
C15_Original ==
    (Returned /\ input = C15_Input) => C15_Shape(13, 11)

(***************************************************************************)
(* C16: for the 7-byte input 'it''s' tokenize() returns exactly one token, *)
(* a String whose value is the whole input, of length 7.                   *)
(***************************************************************************)
C16_Input == <<39, 105, 116, 39, 39, 115, 39>>

C16_Shape(strLen) ==
    /\ Len(tokens) = 1
    /\ tokens[1].type = "String"
    /\ Bytes(input, tokens[1].value) = input
    /\ tokens[1].value = [start |-> 0, len |-> strLen]

C16_DoubledQuoteExample ==
    (Returned /\ input = C16_Input) => C16_Shape(7)

C16_Witness ==
    /\ Returned
    /\ input = C16_Input
    /\ Len(tokens) = 1
    /\ tokens[1].type = "String"

\* The statement with the figure as given: length 6.
C16_Original ==
    (Returned /\ input = C16_Input) => C16_Shape(6)

(***************************************************************************)
(* C17: the table entry of every byte the tokenizer is given equals the    *)
(* flag of the byte's class: WHITESPACE for space, tab, LF, CR;            *)
(* ALPHA_UPPER for A-Z; ALPHA_LOWER for a-z; DIGIT for 0-9; UNDERSCORE for *)
(* "_"; QUOTE for the two quotes; OPERATOR for ! % & * + - . / < = > ^ | ~;*)
(* DELIMITER for ( ) , : ; [ ] { }; and 0 for every other byte.  Every     *)
(* entry is 0 or a single flag bit.                                        *)
(***************************************************************************)
ClassFlag(b) ==
    IF b \in WhitespaceBytes THEN CHAR_WHITESPACE
    ELSE IF b >= 65 /\ b <= 90 THEN CHAR_ALPHA_UPPER
    ELSE IF b >= 97 /\ b <= 122 THEN CHAR_ALPHA_LOWER
    ELSE IF IsDecimalDigit(b) THEN CHAR_DIGIT
    ELSE IF b = 95 THEN CHAR_UNDERSCORE
    ELSE IF b \in QuoteBytes THEN CHAR_QUOTE
    ELSE IF b \in OperatorBytes THEN CHAR_OPERATOR
    ELSE IF b \in DelimiterBytes THEN CHAR_DELIMITER
    ELSE CHAR_NONE

SingleFlags == {1, 2, 4, 8, 16, 32, 64, 128}

C17_TableMatchesClasses ==
    \A p \in 0..(Len(input) - 1) :
        LET b == At(input, p)
        IN  /\ char_lookup_table[b] = ClassFlag(b)
            /\ char_lookup_table[b] \in SingleFlags \cup {0}

\* A dot tokenized as an Operator, followed by a byte of the upper half.
C17_Witness ==
    /\ Returned
    /\ input = <<46, 128>>
    /\ Len(tokens) = 2
    /\ tokens[1].type = "Operator"
    /\ char_lookup_table[128] = 0

(***************************************************************************)
(* C18: wherever tokenize() calls skip_whitespace, every tier returns the  *)
(* length of the longest prefix of whitespace bytes of the slice, the same *)
(* as the scalar loop, and reads no byte outside the slice.  At the start  *)
(* of the input this is checked for every slice length, elsewhere for the  *)
(* rest of the input.                                                      *)
(***************************************************************************)
WsPrefix(inp, p, n) ==
    CHOOSE k \in 0..n :
        /\ \A j \in 0..(k - 1) : At(inp, p + j) \in WhitespaceBytes
        /\ k = n \/ At(inp, p + k) \notin WhitespaceBytes

SliceLens ==
    IF position = 0 THEN 0..Len(input) ELSE {Len(input) - position}

C18_DispatchEquivalence ==
    pc = "loop" =>
        \A tier \in Tiers : \A n \in SliceLens :
            LET r == dispatch(tier, input, position, n)
            IN  /\ r.n = WsPrefix(input, position, n)
                /\ r.n = dispatch("Scalar", input, position, n).n
                /\ r.reads \subseteq position..(position + n - 1)

\* A 33-byte whitespace run was skipped and more whitespace follows the
\* first non-whitespace byte.
C18_Witness ==
    /\ pc = "next"
    /\ tokens = <<>>
    /\ position = 33
    /\ \A p \in 0..32 : At(input, p) \in WhitespaceBytes
    /\ \E p \in 34..(Len(input) - 1) : At(input, p) \in WhitespaceBytes

(***************************************************************************)
(* C19: two Identifier or Keyword tokens whose bytes are equal up to ASCII *)
(* letter case have the same kind and the same keyword_id, within one      *)
(* input and across inputs (each case variant of a lexeme, tokenized on    *)
(* its own, gives the kind and id of the lexeme).                          *)
(***************************************************************************)
FoldCase(b) == IF b >= 97 /\ b <= 122 THEN b - 32 ELSE b

FoldSeq(w) == [k \in 1..Len(w) |-> FoldCase(w[k])]

CaseSet(b) ==
    IF b >= 97 /\ b <= 122 THEN {b, b - 32}
    ELSE IF b >= 65 /\ b <= 90 THEN {b, b + 32}
    ELSE {b}

RECURSIVE CaseVariants(_)
CaseVariants(w) ==
    IF w = <<>> THEN {<<>>}
    ELSE {<<c>> \o v : c \in CaseSet(Head(w)), v \in CaseVariants(Tail(w))}

IdentTokens == {i \in 1..Len(tokens) : tokens[i].type \in {"Identifier", "Keyword"}}

C19_KeywordDeterminism ==
    /\ \A i, j \in IdentTokens :
         FoldSeq(Values[i]) = FoldSeq(Values[j])
            => /\ tokens[i].type = tokens[j].type
               /\ tokens[i].keyword_id = tokens[j].keyword_id
    /\ Returned =>
         \A i \in IdentTokens : \A v \in CaseVariants(Values[i]) :
            LET t == next_token(v, Pos(0, 1, 1)).tok
            IN  /\ t.value.len = Len(v)
                /\ t.type = tokens[i].type
                /\ t.keyword_id = tokens[i].keyword_id

\* The same keyword twice in one input, in different letter case.
C19_Witness ==
    /\ Returned
    /\ \E i, j \in IdentTokens :
         /\ i /= j
         /\ Values[i] /= Values[j]
         /\ FoldSeq(Values[i]) = FoldSeq(Values[j])
         /\ tokens[i].type = "Keyword"

(***************************************************************************)
(* C20: for an input of length 0 or made of whitespace bytes only,         *)
(* tokenize() returns no token, and the final offset, line and column      *)
(* account for every byte and newline skipped.                             *)
(***************************************************************************)
C20_WhitespaceOnly ==
    (Returned /\ \A p \in 0..(Len(input) - 1) : At(input, p) \in WhitespaceBytes)
        => /\ tokens = <<>>
           /\ position = Len(input)
           /\ line = 1 + LFCount(input, Len(input))
           /\ column = Len(input) - LastLF(input, Len(input))

\* A run of at least 17 mixed whitespace bytes with newlines, not ending in
\* a newline.
C20_Witness ==
    /\ Returned
    /\ tokens = <<>>
    /\ Len(input) >= 17
    /\ \A p \in 0..(Len(input) - 1) : At(input, p) \in WhitespaceBytes
    /\ line > 2
    /\ column > 1

(***************************************************************************)
(* C21: a token that starts at a digit is a Number; every Number token is  *)
(* the longest prefix of the remaining input that starts with a digit and  *)
(* is made of digits, at most one dot placed before any exponent marker,   *)
(* at most one exponent marker e/E, and at most one sign placed right      *)
(* after the exponent marker.  1.5e+3 is one token; 1.2.3 is 1.2 . 3;      *)
(* 1e5.5 is 1e5 . 5; 1e+-3 is 1e+ - 3.                                     *)
(***************************************************************************)
IdxOf(w, S) == {k \in 1..Len(w) : w[k] \in S}

NumberShaped(w) ==
    LET dots == IdxOf(w, {46})
        exps == IdxOf(w, {101, 69})
        signs == IdxOf(w, {43, 45})
    IN  /\ Len(w) >= 1
        /\ IsDecimalDigit(w[1])
        /\ \A k \in 1..Len(w) :
              IsDecimalDigit(w[k]) \/ k \in dots \/ k \in exps \/ k \in signs
        /\ Cardinality(dots) <= 1
        /\ Cardinality(exps) <= 1
        /\ Cardinality(signs) <= 1
        /\ \A d \in dots : \A e \in exps : d < e
        /\ \A g \in signs : (g - 1) \in exps

C21_Examples ==
    /\ input = <<49, 46, 53, 101, 43, 51>>
          => Values = << <<49, 46, 53, 101, 43, 51>> >>
    /\ input = <<49, 46, 50, 46, 51>>
          => Values = << <<49, 46, 50>>, <<46>>, <<51>> >>
    /\ input = <<49, 101, 53, 46, 53>>
          => Values = << <<49, 101, 53>>, <<46>>, <<53>> >>
    /\ input = <<49, 101, 43, 45, 51>>
          => Values = << <<49, 101, 43>>, <<45>>, <<51>> >>

C21_NumberGrammar ==
    /\ \A i \in 1..Len(tokens) :
         /\ (IsDecimalDigit(At(input, TokStart(tokens[i])))
             /\ tokens[i].type \notin {"String", "Comment"})
               <=> tokens[i].type = "Number"
         /\ tokens[i].type = "Number" =>
              /\ NumberShaped(Values[i])
              /\ TokEnd(tokens[i]) < Len(input) =>
                    ~NumberShaped(Values[i] \o <<At(input, TokEnd(tokens[i]))>>)
    /\ Returned => C21_Examples

\* 1e+-3 tokenized: Number 1e+, Operator -, Number 3.
C21_Witness ==
    /\ Returned
    /\ input = <<49, 101, 43, 45, 51>>
    /\ Len(tokens) = 3
    /\ tokens[1].type = "Number"
    /\ tokens[2].type = "Operator"
    /\ tokens[3].type = "Number"

(***************************************************************************)
(* C22: in a String token opened by quote q, the q bytes before the        *)
(* terminator come in adjacent pairs (escaped quotes, both bytes inside    *)
(* the value); a closed literal ends at a q that is the last input byte or *)
(* is followed by another byte than q; a literal without such a terminator *)
(* runs to end-of-input.  Two quotes are a closed String of length 2;      *)
(* three quotes, and quote-a-quote-quote, are unterminated Strings that    *)
(* cover the whole input.                                                  *)
(***************************************************************************)
QuoteCount(inp, from, to, q) ==
    Cardinality({p \in from..to : At(inp, p) = q})

\* A literal is closed when, after the opening quote, it holds an odd
\* number of q bytes: pairs, and the terminator.
ClosedString(i) ==
    LET o == TokStart(tokens[i])
    IN  QuoteCount(input, o + 1, TokEnd(tokens[i]) - 1, At(input, o)) % 2 = 1

C22_Examples ==
    /\ input = <<39, 39>>
          => /\ Values = << <<39, 39>> >>
             /\ tokens[1].type = "String"
             /\ ClosedString(1)
    /\ input = <<39, 39, 39>>
          => /\ Values = << <<39, 39, 39>> >>
             /\ tokens[1].type = "String"
             /\ ~ClosedString(1)
    /\ input = <<39, 97, 39, 39>>
          => /\ Values = << <<39, 97, 39, 39>> >>
             /\ tokens[1].type = "String"
             /\ ~ClosedString(1)

C22_EscapedQuotes ==
    /\ \A i \in 1..Len(tokens) :
         tokens[i].type = "String" =>
            LET o == TokStart(tokens[i])
                e == TokEnd(tokens[i])
                q == At(input, o)
                body == IF ClosedString(i) THEN e - 1 ELSE e
            IN  /\ IF ClosedString(i)
                   THEN /\ e - 1 > o
                        /\ At(input, e - 1) = q
                        /\ e = Len(input) \/ At(input, e) /= q
                   ELSE e = Len(input)
                /\ \A j \in (o + 1)..(body - 1) :
                      (At(input, j) = q /\ (j + 1 = body \/ At(input, j + 1) /= q))
                         => QuoteRunBack(input, o, j, q) % 2 = 0
    /\ Returned => C22_Examples

\* A closed literal holding an escaped pair right before its terminator,
\* followed by more input.
C22_Witness ==
    /\ Returned
    /\ \E i \in 1..Len(tokens) :
         LET o == TokStart(tokens[i])
             e == TokEnd(tokens[i])
         IN  /\ tokens[i].type = "String"
             /\ ClosedString(i)
             /\ e < Len(input)
             /\ e - 3 > o
             /\ At(input, e - 2) = At(input, o)
             /\ At(input, e - 3) = At(input, o)

(***************************************************************************)
(* C23: block comments do not nest.  A Comment token that starts with      *)
(* slash-star, when a star-slash exists at or after start + 2, ends with   *)
(* the first such star-slash, and what follows is tokenized normally: the  *)
(* input with an inner opener and two closers yields the Comment up to the *)
(* first closer, then c, star, slash.                                      *)
(***************************************************************************)
Closers(inp, o) ==
    {j \in (o + 2)..(Len(inp) - 2) : StartsWith(inp, j, 42, 47)}

C23_Input ==
    <<47, 42, 32, 97, 32, 47, 42, 32, 98, 32, 42, 47, 32, 99, 32, 42, 47>>

C23_NoNesting ==
    /\ \A i \in 1..Len(tokens) :
         LET o == TokStart(tokens[i])
         IN  ( /\ tokens[i].type = "Comment"
               /\ StartsWith(input, o, 47, 42)
               /\ Closers(input, o) /= {} )
             => TokEnd(tokens[i]) = Least(Closers(input, o)) + 2
    /\ (Returned /\ input = C23_Input) =>
          /\ Values = << <<47, 42, 32, 97, 32, 47, 42, 32, 98, 32, 42, 47>>,
                         <<99>>, <<42>>, <<47>> >>
          /\ tokens[1].type = "Comment"
          /\ tokens[2].type = "Identifier"
          /\ tokens[3].type = "Operator"
          /\ tokens[4].type = "Operator"

\* A closed comment that holds an inner opener and is followed by a second
\* closer.
C23_Witness ==
    /\ Returned
    /\ \E i \in 1..Len(tokens) :
         LET o == TokStart(tokens[i])
         IN  /\ tokens[i].type = "Comment"
             /\ StartsWith(input, o, 47, 42)
             /\ \E p \in (o + 2)..(TokEnd(tokens[i]) - 4) :
                   StartsWith(input, p, 47, 42)
             /\ StartsWith(input, TokEnd(tokens[i]) - 2, 42, 47)
             /\ Cardinality(Closers(input, o)) >= 2

(***************************************************************************)
(* C24: a token that starts at a minus sign followed by a minus sign is a  *)
(* Comment that runs up to and including the next LF, or to end-of-input   *)
(* when there is none; it holds at most one LF, as its last byte; right    *)
(* after a comment ending in LF the state is (line + 1, column 1).  A      *)
(* token that starts at a minus sign not followed by one is a one-byte     *)
(* Operator.                                                               *)
(***************************************************************************)
LFsFrom(inp, o) == {p \in o..(Len(inp) - 1) : At(inp, p) = 10}

C24_LineComment ==
    /\ \A i \in 1..Len(tokens) :
         LET o == TokStart(tokens[i])
             e == TokEnd(tokens[i])
         IN  At(input, o) = 45 =>
               IF StartsWith(input, o, 45, 45)
               THEN /\ tokens[i].type = "Comment"
                    /\ e = IF LFsFrom(input, o) = {} THEN Len(input)
                           ELSE Least(LFsFrom(input, o)) + 1
                    /\ \A p \in o..(e - 2) : At(input, p) /= 10
               ELSE /\ tokens[i].type = "Operator"
                    /\ tokens[i].value.len = 1
    /\ ( /\ pc = "loop"
         /\ tokens /= <<>>
         /\ position = TokEnd(tokens[Len(tokens)])
         /\ StartsWith(input, TokStart(tokens[Len(tokens)]), 45, 45)
         /\ At(input, position - 1) = 10 )
       => /\ line = tokens[Len(tokens)].line + 1
          /\ column = 1

\* A line comment closed by LF is followed by a lone minus on the next line.
C24_Witness ==
    /\ Returned
    /\ \E i \in 2..Len(tokens) :
         /\ tokens[i - 1].type = "Comment"
         /\ StartsWith(input, TokStart(tokens[i - 1]), 45, 45)
         /\ tokens[i - 1].value.len >= 3
         /\ At(input, TokEnd(tokens[i - 1]) - 1) = 10
         /\ TokStart(tokens[i]) = TokEnd(tokens[i - 1])
         /\ Values[i] = <<45>>
         /\ tokens[i].type = "Operator"
         /\ tokens[i].line = tokens[i - 1].line + 1
         /\ tokens[i].column = 1

(***************************************************************************)
(* C25: the state starts at (0, 1, 1); between any two steps of tokenize() *)
(* 0 <= offset <= len, line = 1 + number of LF bytes before offset and     *)
(* column = offset minus the offset of the last LF before it (-1 if none); *)
(* offset and line never decrease.                                         *)
(***************************************************************************)
C25_StateInv ==
    /\ 0 <= position
    /\ position <= Len(input)
    /\ line = 1 + LFCount(input, position)
    /\ column = position - LastLF(input, position)

C25_Step ==
    /\ position' >= position
    /\ line' >= line

C25_PositionInvariant ==
    /\ (position = 0 /\ line = 1 /\ column = 1)
    /\ []C25_StateInv
    /\ [][C25_Step]_vars

\* In the middle of a run: two lines down, past column 1, tokens emitted
\* and input left.
C25_Witness ==
    /\ pc = "next"
    /\ Len(tokens) >= 2
    /\ line >= 3
    /\ column >= 2
    /\ position < Len(input)
    /\ \E i \in 1..Len(tokens) :
         /\ tokens[i].type = "String"
         /\ \E p \in Covered(i) : At(input, p) = 10

(***************************************************************************)
(* C26: tokenize() does not reset the position state.  In every step of a  *)
(* call after the first on the same instance, offset, line and column stay *)
(* as the first call left them, the token sequence is empty and no token   *)
(* is scanned; once such a call has returned, its result is empty and the  *)
(* offset is at end-of-input.                                              *)
(***************************************************************************)
C26_Step ==
    calls' >= 2 =>
        /\ position' = position
        /\ line' = line
        /\ column' = column
        /\ tokens' = <<>>
        /\ pc' \in {"loop", "idle"}

C26_NoReset ==
    /\ [][C26_Step]_vars
    /\ []((calls >= 2 /\ pc = "idle") => (tokens = <<>> /\ position = Len(input)))

\* A second call has returned on an input that spans several lines.
C26_Witness ==
    /\ calls = 2
    /\ pc = "idle"
    /\ tokens = <<>>
    /\ Len(input) >= 3
    /\ position = Len(input)
    /\ line >= 2
    /\ column >= 2
    /\ \E p \in 0..(Len(input) - 1) : At(input, p) \notin WhitespaceBytes

(***************************************************************************)
(* C27: the star of a block-comment opener is not the star of a closer:    *)
(* the search for star-slash begins at start + 2.  Slash-star-slash, space,*)
(* x, space, star-slash is one Comment of 8 bytes; the input               *)
(* slash-star-slash alone is one unterminated Comment.                     *)
(***************************************************************************)
C27_OpenerStarNotCloser ==
    /\ \A i \in 1..Len(tokens) :
         ( /\ tokens[i].type = "Comment"
           /\ StartsWith(input, TokStart(tokens[i]), 47, 42)
           /\ Closers(input, TokStart(tokens[i])) /= {} )
            => Values[i] /= <<47, 42, 47>>
    /\ (Returned /\ input = <<47, 42, 47, 32, 120, 32, 42, 47>>) =>
          /\ Len(tokens) = 1
          /\ tokens[1].type = "Comment"
          /\ tokens[1].value = [start |-> 0, len |-> 8]
    /\ (Returned /\ input = <<47, 42, 47>>) =>
          /\ Len(tokens) = 1
          /\ tokens[1].type = "Comment"
          /\ tokens[1].value = [start |-> 0, len |-> 3]

(***************************************************************************)
(* C28: an Operator or Delimiter token is a Delimiter exactly when its     *)
(* first byte is a delimiter byte; a token that starts at a colon followed *)
(* by a colon is the two-byte Delimiter colon-colon, which is the only     *)
(* two-byte Delimiter; every other two-byte token of the two kinds is one  *)
(* of the nine Operator pairs.                                             *)
(***************************************************************************)
OperatorPairs == { <<60, 61>>, <<60, 62>>, <<60, 60>>, <<62, 61>>, <<62, 62>>,
                   <<33, 61>>, <<61, 61>>, <<124, 124>>, <<38, 38>> }

C28_KindByFirstByte ==
    \A i \in 1..Len(tokens) :
        LET o == TokStart(tokens[i])
        IN  IsOpOrDelim(tokens[i]) =>
              /\ tokens[i].type = "Delimiter" <=> At(input, o) \in DelimiterBytes
              /\ StartsWith(input, o, 58, 58) =>
                    (tokens[i].type = "Delimiter" /\ Values[i] = <<58, 58>>)
              /\ (tokens[i].type = "Delimiter" /\ Values[i] /= <<58, 58>>)
                    => tokens[i].value.len = 1
              /\ (tokens[i].type = "Operator" /\ tokens[i].value.len /= 1)
                    => Values[i] \in OperatorPairs

\* Colon-colon as one Delimiter directly followed by a two-byte Operator.
C28_Witness ==
    /\ Returned
    /\ \E i \in 1..(Len(tokens) - 1) :
         /\ tokens[i].type = "Delimiter" /\ Values[i] = <<58, 58>>
         /\ tokens[i + 1].type = "Operator" /\ tokens[i + 1].value.len = 2
         /\ TokEnd(tokens[i]) = TokStart(tokens[i + 1])

(***************************************************************************)
(* C29: every Identifier or Keyword token is made of letters, digits and   *)
(* underscore only, and the byte right after it, if any, is none of these; *)
(* so two such tokens are never adjacent.  A Number directly followed by   *)
(* letters splits: 1abc is the Number 1 and the Identifier abc.            *)
(***************************************************************************)
IsIdentCont(b) == IsLetterOrUnderscore(b) \/ IsDecimalDigit(b)

C29_IdentifierMaximality ==
    /\ \A i \in IdentTokens :
         /\ \A p \in Covered(i) : IsIdentCont(At(input, p))
         /\ TokEnd(tokens[i]) < Len(input)
               => ~IsIdentCont(At(input, TokEnd(tokens[i])))
         /\ (i + 1) \in IdentTokens => TokEnd(tokens[i]) < TokStart(tokens[i + 1])
    /\ (Returned /\ input = <<49, 97, 98, 99>>) =>
          /\ Values = << <<49>>, <<97, 98, 99>> >>
          /\ tokens[1].type = "Number"
          /\ tokens[2].type = "Identifier"

\* An identifier holding a digit and an underscore, stopped by an operator,
\* with a second identifier after it.
C29_Witness ==
    /\ Returned
    /\ \E i \in IdentTokens :
         /\ \E p \in Covered(i) : IsDecimalDigit(At(input, p))
         /\ TokEnd(tokens[i]) < Len(input)
         /\ At(input, TokEnd(tokens[i])) \notin WhitespaceBytes
         /\ (i + 2) \in IdentTokens

(***************************************************************************)
(* C30: on every byte given to the tokenizer, each table predicate agrees  *)
(* with the range predicate of the same name: identifier start, identifier *)
(* continuation, digit and whitespace.                                     *)
(***************************************************************************)
C30_LookupEqualsRange ==
    \A p \in 0..(Len(input) - 1) :
        LET b == At(input, p)
        IN  /\ is_identifier_start_lookup(b) = is_identifier_start_range(b)
            /\ is_identifier_cont_lookup(b) = is_identifier_cont_range(b)
            /\ is_digit_lookup(b) = is_digit_range(b)
            /\ is_whitespace_lookup(b) = is_whitespace_range(b)

\* Underscore then a digit: one Identifier; the digit continues but does
\* not start an identifier.
C30_Witness ==
    /\ Returned
    /\ input = <<95, 48>>
    /\ Len(tokens) = 1
    /\ tokens[1].type = "Identifier"
    /\ is_identifier_start_lookup(95)
    /\ is_identifier_cont_lookup(48)
    /\ ~is_identifier_start_range(48)
    /\ is_digit_range(48)

TypeOK ==
    /\ position \in 0..Len(input)
    /\ pc \in {"idle", "loop", "next"}
    /\ calls \in 0..MaxCalls
    /\ simd_kw \in SimdOutcomes

====
